---- MODULE Spec2Model ----
(***************************************************************************)
(* Model of MuShroomDataLoader (src/src/preprocessing/                     *)
(* mushroom_data_loader.py): file discovery, format-dispatch loading, the  *)
(* dataset registry and the schema analysis.                               *)
(*                                                                         *)
(* Python values are tagged records [kind, v]:                             *)
(*   none / int / str / list (v: sequence of values) /                     *)
(*   dict (v: sequence of <<key, value>> pairs in insertion order) /       *)
(*   frame (v: <<columns, rows>>, a pandas DataFrame).                     *)
(* Raised stands for an exception thrown by the call that produced it.     *)
(***************************************************************************)
EXTENDS Integers, Sequences, FiniteSets, TLC

VARIABLES fs, max_records, pc, file_registry, loaded_datasets,
          prev_loaded, analyzed_name, analysis_results, summary, raised,
          clock, ret

vars == <<fs, max_records, pc, file_registry, loaded_datasets,
          prev_loaded, analyzed_name, analysis_results, summary, raised,
          clock, ret>>

\* ---------------------------------------------------------------- bounds
\* most lines in a text file of the loader-level specification
MaxLines == 4
\* largest record cap tried in the loader-level specification
MaxK == 3
\* most members in a ZIP archive of the loader-level specification
MaxMembers == 2
\* most files in the directory trees of the pipeline specification
MaxFiles == 2

\* ------------------------------------------------------- Python values
None == [kind |-> "none", v |-> <<>>]
Raised == [kind |-> "raised", v |-> <<>>]
PyInt(n) == [kind |-> "int", v |-> n]
PyStr(s) == [kind |-> "str", v |-> s]
PyList(s) == [kind |-> "list", v |-> s]
PyDict(pairs) == [kind |-> "dict", v |-> pairs]
PyFrame(cols, rows) == [kind |-> "frame", v |-> <<cols, rows>>]

\* max_records=None is <<>>, max_records=k is <<k>>
NoLimit == <<>>
Limit(k) == <<k>>

Min(a, b) == IF a <= b THEN a ELSE b

\* s[:n] for n >= 0
Slice(s, n) == SubSeq(s, 1, Min(n, Len(s)))

\* d[key] = val on an insertion-ordered dict: an existing key keeps its place
RECURSIVE DictSet(_, _, _)
DictSet(pairs, key, val) ==
    IF pairs = <<>> THEN << <<key, val>> >>
    ELSE IF pairs[1][1] = key THEN << <<key, val>> >> \o Tail(pairs)
    ELSE << pairs[1] >> \o DictSet(Tail(pairs), key, val)

\* set(d.keys())
DictKeys(pairs) == {pairs[i][1] : i \in 1..Len(pairs)}

\* type(value).__name__
TypeName(val) ==
    CASE val.kind = "none" -> "NoneType"
      [] val.kind = "frame" -> "DataFrame"
      [] OTHER -> val.kind

\* ------------------------------------------------------ text and JSON
\* the records of the example files
RecA1 == PyDict(<< <<"a", PyInt(1)>> >>)
RecA2 == PyDict(<< <<"a", PyInt(2)>> >>)
RecA3 == PyDict(<< <<"a", PyInt(3)>> >>)
RecXY(n) == PyDict(<< <<"x", PyInt(n)>>, <<"y", PyStr("s")>> >>)
RecXZ(n) == PyDict(<< <<"x", PyStr("t")>>, <<"z", PyInt(n)>> >>)

\* line.strip() on the lines the model uses
Strip(line) ==
    CASE line = " " -> ""
      [] OTHER -> line

\* json.loads(text) on the texts the model uses; any other text is malformed
JsonLoads(text) ==
    CASE text = "{\"a\":1}" -> RecA1
      [] text = "{\"a\":2}" -> RecA2
      [] text = "{\"a\":3}" -> RecA3
      [] text = "{\"x\":1,\"y\":\"s\"}" -> RecXY(1)
      [] text = "{\"x\":2,\"y\":\"s\"}" -> RecXY(2)
      [] text = "{\"x\":3,\"y\":\"s\"}" -> RecXY(3)
      [] text = "{\"x\":\"t\",\"z\":1}" -> RecXZ(1)
      [] text = "{\"x\":\"t\",\"z\":2}" -> RecXZ(2)
      [] text = "7" -> PyInt(7)
      [] text = "null" -> None
      [] text = "[]" -> PyList(<<>>)
      [] text = "[5]" -> PyList(<<PyInt(5)>>)
      [] text = "[5,6]" -> PyList(<<PyInt(5), PyInt(6)>>)
      [] text = "[0,1,2,3,4,5,6,7,8,9]" -> PyList([i \in 1..10 |-> PyInt(i - 1)])
      [] text = "[{\"x\":1,\"y\":\"s\"},{\"x\":2,\"y\":\"s\"},{\"x\":3,\"y\":\"s\"}]"
            -> PyList(<<RecXY(1), RecXY(2), RecXY(3)>>)
      [] text = "[{\"x\":\"t\",\"z\":1},{\"x\":\"t\",\"z\":2}]"
            -> PyList(<<RecXZ(1), RecXZ(2)>>)
      [] text = "[7,{\"a\":1}]" -> PyList(<<PyInt(7), RecA1>>)
      [] text = "{\"rows\":[{\"a\":1},{\"a\":2},{\"a\":3}],\"n\":3}"
            -> PyDict(<< <<"rows", PyList(<<RecA1, RecA2, RecA3>>)>>,
                         <<"n", PyInt(3)>> >>)
      [] OTHER -> Raised

\* the non-blank lines of a text
NonBlank(lines) == SelectSeq(lines, LAMBDA l : Strip(l) # "")

\* json.load(f): the whole text is one JSON value, or the parse raises
json_load(f) ==
    IF f.kind # "text" THEN Raised
    ELSE IF Len(NonBlank(f.v)) # 1 THEN Raised
    ELSE JsonLoads(Strip(NonBlank(f.v)[1]))

\* ------------------------------------------------------------- loaders
\* load_json_file cutting the list only under a truthy max_records
load_json_file_truthy(f, maxrec) ==
    LET data == json_load(f) IN
    IF data = Raised THEN None
    ELSE IF data.kind = "list" /\ maxrec # NoLimit /\ maxrec # Limit(0)
         THEN PyList(Slice(data.v, maxrec[1]))
         ELSE data

\* load_json_file: the parsed value, a list cut to max_records; None on failure
load_json_file(f, maxrec) ==
    LET data == json_load(f) IN
    IF data = Raised THEN None
    ELSE IF data.kind = "list" /\ maxrec # NoLimit
         THEN PyList(Slice(data.v, maxrec[1]))
         ELSE data

\* the loop of load_jsonl_file stopping on the records read, not the lines
RECURSIVE jsonl_loop_by_records(_, _, _, _)
jsonl_loop_by_records(lines, i, maxrec, data) ==
    IF i >= Len(lines) THEN PyList(data)
    ELSE IF maxrec # NoLimit /\ Len(data) >= maxrec[1] THEN PyList(data)
    ELSE LET line == Strip(lines[i + 1]) IN
         IF line = "" THEN jsonl_loop_by_records(lines, i + 1, maxrec, data)
         ELSE IF JsonLoads(line) = Raised THEN Raised
         ELSE jsonl_loop_by_records(lines, i + 1, maxrec, Append(data, JsonLoads(line)))

\* the loop of load_jsonl_file: i is enumerate's 0-based line index
RECURSIVE jsonl_loop(_, _, _, _)
jsonl_loop(lines, i, maxrec, data) ==
    IF i >= Len(lines) THEN PyList(data)
    ELSE IF maxrec # NoLimit /\ i >= maxrec[1] THEN PyList(data)
    ELSE LET line == Strip(lines[i + 1]) IN
         IF line = "" THEN jsonl_loop(lines, i + 1, maxrec, data)
         ELSE IF JsonLoads(line) = Raised THEN Raised
         ELSE jsonl_loop(lines, i + 1, maxrec, Append(data, JsonLoads(line)))

\* the lines open(file_path, 'r', encoding='utf-8') yields, a list of
\* strings, or Raised when the bytes are not UTF-8; an archive carries what
\* its bytes give
DecodeUtf8(f) ==
    IF f.kind = "text" THEN PyList(f.v) ELSE f.text

\* load_jsonl_file: the list of parsed lines; None on failure
load_jsonl_file(f, maxrec) ==
    IF DecodeUtf8(f) = Raised THEN None
    ELSE LET data == jsonl_loop(DecodeUtf8(f).v, 0, maxrec, <<>>) IN
         IF data = Raised THEN None ELSE data

\* one CSV line split at its commas, on the lines the model uses
CsvCells(line) ==
    CASE line = "x,w" -> <<"x", "w">>
      [] line = "1,2" -> <<PyInt(1), PyInt(2)>>
      [] line = "3,4" -> <<PyInt(3), PyInt(4)>>
      [] line = "5,6" -> <<PyInt(5), PyInt(6)>>
      [] line = "PK" -> <<"PK">>
      [] OTHER -> <<>>

\* the parse of pd.read_csv: header row, then at most nrows data rows; no
\* row at all raises
parse_csv(lines, maxrec) ==
    IF NonBlank(lines) = <<>> THEN Raised
    ELSE LET rows == Tail(NonBlank(lines))
             kept == IF maxrec = NoLimit THEN rows ELSE Slice(rows, maxrec[1])
         IN PyFrame(CsvCells(NonBlank(lines)[1]),
                    [i \in 1..Len(kept) |-> CsvCells(kept[i])])

\* the compression pd.read_csv infers from the path (compression='infer'):
\* of the names the model uses, the one ending in .zip
infer_compression(file_path) ==
    IF file_path \in {"d.zip"} THEN "zip" ELSE "none"

\* pd.read_csv(file_path, nrows=max_records): a path ending in .zip is opened
\* as an archive, which must hold exactly one entry, and that entry is parsed;
\* any other path is read as UTF-8 text
read_csv(file_path, f, maxrec) ==
    IF infer_compression(file_path) = "zip"
    THEN IF f.kind # "zip" THEN Raised
         ELSE IF Len(f.v) # 1 THEN Raised
         ELSE parse_csv(f.v[1][2].v, maxrec)
    ELSE IF DecodeUtf8(f) = Raised THEN Raised
    ELSE parse_csv(DecodeUtf8(f).v, maxrec)

\* load_csv_file: the frame; None on failure
load_csv_file(file_path, f, maxrec) ==
    LET data == read_csv(file_path, f, maxrec) IN
    IF data = Raised THEN None ELSE data

\* zip_filename.endswith('/') on the member names the model uses
EndsWithSlash(name) == name \in {"docs/"}

\* os.path.splitext(name)[1] on the names the model uses
SplitExt(name) ==
    CASE name \in {"a.jsonl", "m.jsonl", "sub/a.jsonl"} -> ".jsonl"
      [] name \in {"b.json", "n.json", "p.json", "tiny.json", "ints.json", "sub/b.json"}
            -> ".json"
      [] name = "C.JSON" -> ".JSON"
      [] name = "c.csv" -> ".csv"
      [] name = "d.zip" -> ".zip"
      [] name = "readme.txt" -> ".txt"
      [] OTHER -> ""

\* str.lower() on the extensions the model uses
Lower(ext) ==
    CASE ext = ".JSON" -> ".json"
      [] OTHER -> ext

\* the .jsonl branch of extract_and_load_zip, the loop over the member's lines
RECURSIVE zip_jsonl_loop(_, _, _, _)
zip_jsonl_loop(lines, i, maxrec, data) ==
    IF i >= Len(lines) THEN PyList(data)
    ELSE IF maxrec # NoLimit /\ i >= maxrec[1] THEN PyList(data)
    ELSE LET line == Strip(lines[i + 1]) IN
         IF line = "" THEN zip_jsonl_loop(lines, i + 1, maxrec, data)
         ELSE IF JsonLoads(line) = Raised THEN Raised
         ELSE zip_jsonl_loop(lines, i + 1, maxrec, Append(data, JsonLoads(line)))

\* the body of the loop over the archive's members: a member is <<name, text>>;
\* the result is Raised when the member's parse raises, NoMember when the
\* member is skipped, else the value stored under the member's name
NoMember == [kind |-> "skipped", v |-> <<>>]

zip_member(member, maxrec) ==
    LET file_ext == Lower(SplitExt(member[1])) IN
    IF EndsWithSlash(member[1]) THEN NoMember
    ELSE IF file_ext = ".json"
    THEN LET data == json_load(member[2]) IN
         IF data = Raised THEN Raised
         ELSE IF data.kind = "list" /\ maxrec # NoLimit
              THEN PyList(Slice(data.v, maxrec[1]))
              ELSE data
    ELSE IF file_ext = ".jsonl"
    THEN zip_jsonl_loop(member[2].v, 0, maxrec, <<>>)
    ELSE NoMember

\* the loop over file_list without the inner try/except: the first member
\* that raises ends the loop
RECURSIVE zip_loop_stop(_, _, _)
zip_loop_stop(members, maxrec, zip_contents) ==
    IF members = <<>> THEN zip_contents
    ELSE LET data == zip_member(members[1], maxrec) IN
         IF data = Raised THEN zip_contents
         ELSE IF data = NoMember
         THEN zip_loop_stop(Tail(members), maxrec, zip_contents)
         ELSE zip_loop_stop(Tail(members), maxrec,
                            DictSet(zip_contents, members[1][1], data))

\* the loop over file_list; the inner try/except drops a member that raised
RECURSIVE zip_loop(_, _, _)
zip_loop(members, maxrec, zip_contents) ==
    IF members = <<>> THEN zip_contents
    ELSE LET data == zip_member(members[1], maxrec) IN
         IF data \in {Raised, NoMember}
         THEN zip_loop(Tail(members), maxrec, zip_contents)
         ELSE zip_loop(Tail(members), maxrec,
                       DictSet(zip_contents, members[1][1], data))

\* extract_and_load_zip: the dict member name -> data; None when the file
\* does not open as an archive
extract_and_load_zip(f, maxrec) ==
    IF f.kind # "zip" THEN None
    ELSE PyDict(zip_loop(f.v, maxrec, <<>>))

\* the size below which load_file skips a file
SmallFileBytes == 50

\* the branch taken without the size test
load_file_branch_nosize(file_info) ==
    IF file_info.extension = ".json" THEN "load_json_file"
    ELSE IF file_info.extension = ".jsonl" THEN "load_jsonl_file"
    ELSE IF file_info.extension = ".csv" THEN "load_csv_file"
    ELSE IF file_info.extension = ".zip" THEN "extract_and_load_zip"
    ELSE "unsupported"

\* the branch load_file takes for a descriptor
load_file_branch(file_info) ==
    IF file_info.size_bytes < SmallFileBytes THEN "skip"
    ELSE IF file_info.extension = ".json" THEN "load_json_file"
    ELSE IF file_info.extension = ".jsonl" THEN "load_jsonl_file"
    ELSE IF file_info.extension = ".csv" THEN "load_csv_file"
    ELSE IF file_info.extension = ".zip" THEN "extract_and_load_zip"
    ELSE "unsupported"

\* load_file(file_info, max_records): <<success, data>>; f is the file at
\* file_info['full_path']
load_file(file_info, f, maxrec) ==
    LET branch == load_file_branch(file_info)
        data == CASE branch = "load_json_file" -> load_json_file(f, maxrec)
                  [] branch = "load_jsonl_file" -> load_jsonl_file(f, maxrec)
                  [] branch = "load_csv_file" -> load_csv_file(file_info.name, f, maxrec)
                  [] branch = "extract_and_load_zip" -> extract_and_load_zip(f, maxrec)
                  [] OTHER -> None
    IN <<data # None, data>>

\* ---------------------------------------------------------- discovery
\* self.base_paths: dataset name -> root path
base_paths ==
    [d \in {"test_labeled", "test_unlabeled", "train_data"} |->
        IF d = "test_labeled" THEN "/kaggle/input/test-labeled/v1/"
        ELSE IF d = "test_unlabeled" THEN "/kaggle/input/test-unlabeled/v1/"
        ELSE "/kaggle/input/train-data/train/"]

\* the order in which a dict keyed by dataset name is iterated
DatasetOrder == <<"test_labeled", "test_unlabeled", "train_data">>

\* the file system: fsys[d] is the tree under base_paths[d]: whether the
\* root exists, its files [name, size_bytes, f] in os.walk order (name
\* relative to the root, f the content), and the names on which
\* os.path.getsize raises
FileOf(fsys, d, name) ==
    fsys[d].files[CHOOSE i \in 1..Len(fsys[d].files) : fsys[d].files[i].name = name]

\* the try block of discover_files for one dataset, from the i-th file on:
\* Raised when os.path.getsize raises
RECURSIVE walk_loop(_, _, _, _)
walk_loop(fsys, d, i, files) ==
    IF i > Len(fsys[d].files) THEN PyList(files)
    ELSE IF fsys[d].files[i].name \in fsys[d].unreadable THEN Raised
    ELSE walk_loop(fsys, d, i + 1,
           Append(files, [name |-> fsys[d].files[i].name,
                          full_path |-> base_paths[d] \o fsys[d].files[i].name,
                          size_bytes |-> fsys[d].files[i].size_bytes,
                          extension |-> Lower(SplitExt(fsys[d].files[i].name)),
                          dataset |-> d]))

\* what the except clause of discover_files leaves for the dataset
walk_failed(fsys, d) == <<>>

\* the body of discover_files' loop for one dataset
discover_dataset(fsys, d) ==
    IF ~fsys[d].exists THEN <<>>
    ELSE IF walk_loop(fsys, d, 1, <<>>) = Raised THEN walk_failed(fsys, d)
    ELSE walk_loop(fsys, d, 1, <<>>).v

\* discover_files: dataset name -> sequence of descriptors
discover_files(fsys) ==
    [d \in DOMAIN base_paths |-> discover_dataset(fsys, d)]

\* the file at a descriptor's full_path
Open(fsys, file_info) == FileOf(fsys, file_info.dataset, file_info.name).f

\* ------------------------------------------------------------ registry
\* the loop of load_all_datasets putting the load time into the data
RECURSIVE load_dataset_stamped(_, _, _, _, _)
load_dataset_stamped(fsys, files, maxrec, now, dataset_data) ==
    IF files = <<>> THEN <<dataset_data, now>>
    ELSE LET r == load_file(files[1], Open(fsys, files[1]), maxrec) IN
         IF r[1]
         THEN load_dataset_stamped(fsys, Tail(files), maxrec, now + 1,
                DictSet(dataset_data, files[1].name,
                        [data |-> PyDict(<< <<"data", r[2]>>, <<"loaded_at", PyInt(now)>> >>),
                         file_info |-> files[1], loaded_at |-> now]))
         ELSE load_dataset_stamped(fsys, Tail(files), maxrec, now, dataset_data)

\* the loop of load_all_datasets over one dataset's descriptors; now is the
\* reading of the clock, which every stamp advances
RECURSIVE load_dataset(_, _, _, _, _)
load_dataset(fsys, files, maxrec, now, dataset_data) ==
    IF files = <<>> THEN <<dataset_data, now>>
    ELSE LET r == load_file(files[1], Open(fsys, files[1]), maxrec) IN
         IF r[1]
         THEN load_dataset(fsys, Tail(files), maxrec, now + 1,
                DictSet(dataset_data, files[1].name,
                        [data |-> r[2], file_info |-> files[1], loaded_at |-> now]))
         ELSE load_dataset(fsys, Tail(files), maxrec, now, dataset_data)

\* the clock after the datasets order[1..n] are loaded
RECURSIVE clock_after(_, _, _, _, _, _)
clock_after(fsys, registry, maxrec, now, order, n) ==
    IF n = 0 THEN now
    ELSE load_dataset(fsys, registry[order[n]], maxrec,
                      clock_after(fsys, registry, maxrec, now, order, n - 1), <<>>)[2]

\* load_all_datasets leaving out the datasets with nothing loaded
load_all_datasets_nonempty(fsys, registry, maxrec, now) ==
    [d \in {e \in DOMAIN registry :
              load_dataset(fsys, registry[e], maxrec, 0, <<>>)[1] # <<>>} |->
        LET n == CHOOSE i \in 1..Len(DatasetOrder) : DatasetOrder[i] = d IN
        load_dataset(fsys, registry[d], maxrec,
                     clock_after(fsys, registry, maxrec, now, DatasetOrder, n - 1),
                     <<>>)[1]]

\* load_all_datasets on a discovered registry: dataset name -> dict
\* file name -> payload
load_all_datasets(fsys, registry, maxrec, now) ==
    [d \in DOMAIN registry |->
        LET n == CHOOSE i \in 1..Len(DatasetOrder) : DatasetOrder[i] = d IN
        load_dataset(fsys, registry[d], maxrec,
                     clock_after(fsys, registry, maxrec, now, DatasetOrder, n - 1),
                     <<>>)[1]]

\* ------------------------------------------------------------ analysis
PySet(S) == [kind |-> "set", v |-> S]
\* a key the dict does not hold
Missing == [kind |-> "missing", v |-> <<>>]

\* data_schema after the loop over data[0].items()
SchemaAdd(schema, pairs) ==
    [k \in DOMAIN schema \cup DictKeys(pairs) |->
        (IF k \in DOMAIN schema THEN schema[k] ELSE {})
        \cup {TypeName(pairs[i][2]) : i \in {j \in 1..Len(pairs) : pairs[j][1] = k}}]

\* data.head(2).to_dict('records')
FrameRecords(frame, n) ==
    [i \in 1..Min(n, Len(frame.v[2])) |->
        PyDict([c \in 1..Len(frame.v[1]) |-> <<frame.v[1][c], frame.v[2][i][c]>>])]

\* the acc of the loop over a dataset's files: the analysis dict and the
\* list all_keys_sets
NewAnalysis(dataset) ==
    [analysis |-> [file_count |-> Len(dataset),
                   total_records |-> 0,
                   record_types |-> <<>>,
                   common_keys |-> None,
                   sample_records |-> <<>>,
                   data_schema |-> <<>>,
                   all_unique_keys |-> Missing],
     all_keys_sets |-> <<>>]

\* the loop over data.items() extending sample_records by the whole member
RECURSIVE analyze_items_unsliced(_, _)
analyze_items_unsliced(acc, items) ==
    IF items = <<>> THEN acc
    ELSE LET sub_data == items[1][2] IN
         IF sub_data.kind = "list" /\ Len(sub_data.v) > 0
         THEN LET counted == [acc EXCEPT !.analysis.total_records = @ + Len(sub_data.v)] IN
              IF sub_data.v[1].kind = "dict"
              THEN analyze_items_unsliced(
                     [counted EXCEPT
                        !.all_keys_sets = Append(@, DictKeys(sub_data.v[1].v)),
                        !.analysis.sample_records = @ \o sub_data.v],
                     Tail(items))
              ELSE analyze_items_unsliced(counted, Tail(items))
         ELSE analyze_items_unsliced(acc, Tail(items))

\* the loop over data.items() of a dict payload (ZIP contents, JSON object)
RECURSIVE analyze_items(_, _)
analyze_items(acc, items) ==
    IF items = <<>> THEN acc
    ELSE LET sub_data == items[1][2] IN
         IF sub_data.kind = "list" /\ Len(sub_data.v) > 0
         THEN LET counted == [acc EXCEPT !.analysis.total_records = @ + Len(sub_data.v)] IN
              IF sub_data.v[1].kind = "dict"
              THEN analyze_items(
                     [counted EXCEPT
                        !.all_keys_sets = Append(@, DictKeys(sub_data.v[1].v)),
                        !.analysis.sample_records = @ \o Slice(sub_data.v, 2)],
                     Tail(items))
              ELSE analyze_items(counted, Tail(items))
         ELSE analyze_items(acc, Tail(items))

\* the body of the loop over dataset.items() for one file
analyze_file(acc, filename, data) ==
    IF data.kind = "list"
    THEN LET counted == [acc EXCEPT
                 !.analysis.total_records = @ + Len(data.v),
                 !.analysis.record_types = DictSet(@, filename, <<"list", Len(data.v)>>)] IN
         IF Len(data.v) > 0 /\ data.v[1].kind = "dict"
         THEN [counted EXCEPT
                 !.all_keys_sets = Append(@, DictKeys(data.v[1].v)),
                 !.analysis.sample_records = @ \o Slice(data.v, 2),
                 !.analysis.data_schema = SchemaAdd(@, data.v[1].v)]
         ELSE counted
    ELSE IF data.kind = "dict"
    THEN analyze_items(acc, data.v)
    ELSE IF data.kind = "frame"
    THEN [acc EXCEPT
            !.analysis.total_records = @ + Len(data.v[2]),
            !.analysis.record_types =
                DictSet(@, filename, <<"dataframe", Len(data.v[2]), Len(data.v[1])>>),
            !.all_keys_sets = Append(@, {data.v[1][c] : c \in 1..Len(data.v[1])}),
            !.analysis.sample_records = @ \o FrameRecords(data, 2)]
    ELSE acc

RECURSIVE analyze_files(_, _)
analyze_files(acc, dataset) ==
    IF dataset = <<>> THEN acc
    ELSE analyze_files(analyze_file(acc, dataset[1][1], dataset[1][2].data),
                       Tail(dataset))

\* the first file's key set in place of the intersection
SetIntersectionFirst(sets) == sets[1]

\* set.intersection(*all_keys_sets), set.union(*all_keys_sets)
SetIntersection(sets) == {k \in sets[1] : \A i \in 1..Len(sets) : k \in sets[i]}
SetUnion(sets) == UNION {sets[i] : i \in 1..Len(sets)}

\* the analysis dict of one dataset as it stands before the log lines
build_analysis(dataset) ==
    LET acc == analyze_files(NewAnalysis(dataset), dataset) IN
    IF acc.all_keys_sets # <<>>
    THEN [acc.analysis EXCEPT
            !.common_keys = PySet(SetIntersection(acc.all_keys_sets)),
            !.all_unique_keys = PySet(SetUnion(acc.all_keys_sets))]
    ELSE acc.analysis

\* len(analysis['common_keys']) in the log lines raises TypeError on None
log_raises(analysis) == analysis.common_keys = None

\* dataset_name=None
NoName == ""

\* datasets_to_analyze, less the names not loaded
datasets_to_analyze(loaded, dataset_name) ==
    IF dataset_name # NoName THEN {dataset_name} \cap DOMAIN loaded
    ELSE DOMAIN loaded

\* analyze_dataset_structure: [kind "results", v: dataset -> analysis], or
\* Raised when a log line raises
analyze_dataset_structure(loaded, dataset_name) ==
    IF DOMAIN loaded = {} THEN [kind |-> "results", v |-> <<>>]
    ELSE IF \E d \in datasets_to_analyze(loaded, dataset_name) :
               log_raises(build_analysis(loaded[d]))
    THEN Raised
    ELSE [kind |-> "results",
          v |-> [d \in datasets_to_analyze(loaded, dataset_name) |->
                    build_analysis(loaded[d])]]

\* sum of a field over the analysed datasets, in iteration order
RECURSIVE SumOver(_, _, _)
SumOver(analysis, order, n) ==
    IF n = 0 THEN <<0, 0>>
    ELSE LET rest == SumOver(analysis, order, n - 1) IN
         IF order[n] \in DOMAIN analysis
         THEN <<rest[1] + analysis[order[n]].file_count,
                rest[2] + analysis[order[n]].total_records>>
         ELSE rest

\* get_summary_report: the summary dict, or Raised
get_summary_report(loaded, now) ==
    IF DOMAIN loaded = {} THEN [kind |-> "error", v |-> "No datasets loaded"]
    ELSE LET analysis == analyze_dataset_structure(loaded, NoName) IN
         IF analysis = Raised THEN Raised
         ELSE [kind |-> "summary",
               v |-> [total_datasets |-> Cardinality(DOMAIN loaded),
                      total_files |-> SumOver(analysis.v, DatasetOrder, Len(DatasetOrder))[1],
                      total_records |-> SumOver(analysis.v, DatasetOrder, Len(DatasetOrder))[2],
                      datasets |-> [d \in DOMAIN analysis.v |->
                          [files |-> analysis.v[d].file_count,
                           records |-> analysis.v[d].total_records,
                           common_keys |-> analysis.v[d].common_keys.v,
                           sample_schema |-> analysis.v[d].data_schema]],
                      analysis_timestamp |-> now]]

\* ------------------------------------------------------- file contents
Text(lines) == [kind |-> "text", v |-> lines]

\* an archive: its entries and what its bytes give when read as UTF-8 text,
\* the lines or Raised; the headers, checksums and comment decide that, not
\* the entries alone
Archive(members, text) == [kind |-> "zip", v |-> members, text |-> text]

\* the line an archive's bytes start with, "PK" and the rest of a header
ArchiveLines == PyList(<<"PK">>)

\* an archive as zipfile writes it: without entries the end record alone,
\* one line of text; with entries, records whose bytes do not decode
Zip(members) == Archive(members, IF members = <<>> THEN ArchiveLines ELSE Raised)

\* the sequences of distinct elements of S of length at most n
DistinctSeqs(S, n) ==
    UNION {{s \in [1..k -> S] : \A i, j \in 1..k : i # j => s[i] # s[j]} : k \in 0..n}

\* the sequences over S of length at most n
SeqsUpTo(S, n) == UNION {[1..k -> S] : k \in 0..n}

\* the files of the pipeline's directory trees
Pool ==
    {[name |-> "a.jsonl", size_bytes |-> 120,
      f |-> Text(<<"{\"x\":1,\"y\":\"s\"}", "", "{\"x\":2,\"y\":\"s\"}",
                   "{\"x\":3,\"y\":\"s\"}">>)],
     [name |-> "sub/b.json", size_bytes |-> 200,
      f |-> Text(<<"[{\"x\":\"t\",\"z\":1},{\"x\":\"t\",\"z\":2}]">>)],
     [name |-> "c.csv", size_bytes |-> 60,
      f |-> Text(<<"x,w", "1,2", "3,4", "5,6">>)],
     [name |-> "d.zip", size_bytes |-> 434,
      f |-> Zip(<< <<"m.jsonl", Text(<<"{\"a\":1}", "{\"a\":2}", "{\"a\":3}">>)>>,
                   <<"n.json", Text(<<"{bad">>)>>,
                   <<"docs/", Text(<<>>)>>,
                   <<"p.json", Text(<<"[{\"x\":\"t\",\"z\":1},{\"x\":\"t\",\"z\":2}]">>)>> >>)],
     [name |-> "tiny.json", size_bytes |-> 49,
      f |-> Text(<<"[{\"x\":1,\"y\":\"s\"},{\"x\":2,\"y\":\"s\"},{\"x\":3,\"y\":\"s\"}]">>)],
     [name |-> "ints.json", size_bytes |-> 64,
      f |-> Text(<<"[0,1,2,3,4,5,6,7,8,9]">>)]}

\* max_records_per_file's default
DefaultMaxRecords == 1000

\* the orderings of a set of files
PermsOf(S) == {w \in DistinctSeqs(S, Cardinality(S)) : Len(w) = Cardinality(S)}

\* a root holding the files w, in that os.walk order
RootOf(exists, w, u) ==
    [exists |-> exists \/ w # <<>>, files |-> w,
     unreadable |-> u \cap {w[i].name : i \in 1..Len(w)}]

\* the trees holding the files S, the file q under the root a[q]
TreesOf(S, a) ==
    {[test_labeled |-> RootOf(e[1], w1, u),
      test_unlabeled |-> RootOf(e[2], w2, u),
      train_data |-> RootOf(e[3], w3, u)] :
        w1 \in PermsOf({q \in S : a[q] = "test_labeled"}),
        w2 \in PermsOf({q \in S : a[q] = "test_unlabeled"}),
        w3 \in PermsOf({q \in S : a[q] = "train_data"}),
        e \in BOOLEAN \X BOOLEAN \X BOOLEAN,
        u \in {{}} \cup {{q.name} : q \in S}}

\* the trees of the pipeline: at most MaxFiles pool files in all, each under
\* one root, in any listing order; a root with files exists; at most one
\* file is unreadable
Trees ==
    UNION {UNION {TreesOf(S, a) : a \in [S -> DOMAIN base_paths]} :
             S \in {T \in SUBSET Pool : Cardinality(T) <= MaxFiles}}

\* ------------------------------------------------------- state machine
NoCall == <<>>

Fresh ==
    /\ file_registry = <<>>
    /\ loaded_datasets = <<>>
    /\ prev_loaded = <<>>
    /\ analyzed_name = NoName
    /\ analysis_results = <<>>
    /\ summary = None
    /\ raised = "none"
    /\ clock = 0
    /\ ret = NoCall

\* a loader just constructed, over some tree
Init ==
    /\ fs \in Trees
    /\ max_records \in {Limit(2), Limit(DefaultMaxRecords)}
    /\ pc = "start"
    /\ Fresh

\* discover_files(): the first discovery, or one more after a load
DiscoverFiles ==
    /\ pc \in {"start", "loaded"}
    /\ file_registry' = discover_files(fs)
    /\ pc' = IF pc = "start" THEN "discovered" ELSE "rediscovered"
    /\ UNCHANGED <<fs, max_records, loaded_datasets, prev_loaded, analyzed_name,
                   analysis_results, summary, raised, clock, ret>>

\* the number of payloads of a registry
RECURSIVE PayloadCount(_, _, _)
PayloadCount(loaded, order, n) ==
    IF n = 0 THEN 0
    ELSE PayloadCount(loaded, order, n - 1)
         + (IF order[n] \in DOMAIN loaded THEN Len(loaded[order[n]]) ELSE 0)

\* load_all_datasets(max_records): discovers first when file_registry is
\* empty; prev_loaded keeps the registry the call before returned
LoadAllDatasets ==
    /\ pc \in {"start", "discovered", "rediscovered"}
    /\ LET registry == IF DOMAIN file_registry = {} THEN discover_files(fs)
                       ELSE file_registry
           loaded == load_all_datasets(fs, registry, max_records, clock)
       IN /\ file_registry' = registry
          /\ loaded_datasets' = loaded
          /\ clock' = clock + PayloadCount(loaded, DatasetOrder, Len(DatasetOrder))
    /\ prev_loaded' = IF pc = "rediscovered" THEN <<loaded_datasets>> ELSE prev_loaded
    /\ pc' = IF pc = "rediscovered" THEN "reloaded" ELSE "loaded"
    /\ UNCHANGED <<fs, max_records, analyzed_name, analysis_results, summary,
                   raised, ret>>

\* analyze_dataset_structure(dataset_name)
AnalyzeDatasetStructure ==
    /\ pc = "loaded"
    /\ \E name \in {NoName} \cup DOMAIN base_paths :
         LET r == analyze_dataset_structure(loaded_datasets, name) IN
         /\ analyzed_name' = name
         /\ IF r = Raised
            THEN /\ raised' = "TypeError"
                 /\ pc' = "crashed"
                 /\ UNCHANGED analysis_results
            ELSE /\ analysis_results' = r.v
                 /\ pc' = "analyzed"
                 /\ UNCHANGED raised
    /\ UNCHANGED <<fs, max_records, file_registry, loaded_datasets, prev_loaded,
                   summary, clock, ret>>

\* get_summary_report()
GetSummaryReport ==
    /\ pc \in {"loaded", "analyzed"}
    /\ LET r == get_summary_report(loaded_datasets, clock) IN
       IF r = Raised
       THEN /\ raised' = "TypeError"
            /\ pc' = "crashed"
            /\ UNCHANGED <<summary, clock>>
       ELSE /\ summary' = r
            /\ clock' = clock + 1
            /\ pc' = "reported"
            /\ UNCHANGED raised
    /\ UNCHANGED <<fs, max_records, file_registry, loaded_datasets, prev_loaded,
                   analyzed_name, analysis_results, ret>>

Next ==
    \/ DiscoverFiles
    \/ LoadAllDatasets
    \/ AnalyzeDatasetStructure
    \/ GetSummaryReport

Spec == Init /\ [][Next]_vars

\* ------------------------------------------- the loaders on their own
\* the lines of the loader-level text files
LineAlphabet == {"", " ", "{\"a\":1}", "{\"a\":2}", "{\"a\":3}", "{bad"}

\* whole-file JSON documents
JsonDocs ==
    {"7", "null", "[]", "[5]", "[5,6]", "[0,1,2,3,4,5,6,7,8,9]",
     "[{\"x\":1,\"y\":\"s\"},{\"x\":2,\"y\":\"s\"},{\"x\":3,\"y\":\"s\"}]",
     "[7,{\"a\":1}]",
     "{\"rows\":[{\"a\":1},{\"a\":2},{\"a\":3}],\"n\":3}"}

CsvRows == <<"1,2", "3,4", "5,6">>

JsonTexts ==
    {Text(l) : l \in SeqsUpTo(LineAlphabet, MaxLines)} \cup {Text(<<t>>) : t \in JsonDocs}

CsvTexts == {Text(<<"x,w">> \o SubSeq(CsvRows, 1, n)) : n \in 0..Len(CsvRows)}

\* a text with the header row of the CSV files
IsCsvText(f) == f.kind = "text" /\ f.v # <<>> /\ f.v[1] = "x,w"

\* the members of the loader-level archives
MemberPool ==
    {<<"m.jsonl", Text(<<"{\"a\":1}", "", "{\"a\":2}">>)>>,
     <<"a.jsonl", Text(<<"{\"a\":1}", "{bad">>)>>,
     <<"n.json", Text(<<"{bad">>)>>,
     <<"C.JSON", Text(<<"[5,6]">>)>>,
     <<"docs/", Text(<<>>)>>,
     <<"readme.txt", Text(<<"{\"a\":1}">>)>>}

\* the loader-level archives: some entries, bytes that decode or do not
ZipFiles ==
    {Archive(m, t) : m \in DistinctSeqs(MemberPool, MaxMembers),
                     t \in {ArchiveLines, Raised}}

\* the contents tried under a file name: the JSON and JSONL names hold any
\* text, the CSV name CSV text, the archive name archives and, for a file
\* that is no archive, CSV text; the name load_file does not open holds CSV
\* text
ContentsFor(name) ==
    CASE name = "c.csv" -> CsvTexts
      [] name = "d.zip" -> CsvTexts \cup ZipFiles
      [] name = "b.json" -> JsonTexts \cup CsvTexts \cup ZipFiles
      [] name = "readme.txt" -> CsvTexts
      [] OTHER -> JsonTexts \cup CsvTexts

LoadNames == {"a.jsonl", "b.json", "c.csv", "d.zip", "readme.txt"}

\* the record caps tried: None and 0..MaxK
Caps == {NoLimit} \cup {Limit(k) : k \in 0..MaxK}

\* the bytes of a text: its lines and the newlines between them
RECURSIVE TextBytes(_)
TextBytes(lines) ==
    IF lines = <<>> THEN 0
    ELSE IF Len(lines) = 1 THEN Len(lines[1])
    ELSE Len(lines[1]) + 1 + TextBytes(Tail(lines))

\* the bytes of an archive's entries, stored: a local header and a central
\* directory record for each, both with the name, and the content
RECURSIVE EntriesBytes(_)
EntriesBytes(members) ==
    IF members = <<>> THEN 0
    ELSE 30 + 46 + 2 * Len(members[1][1]) + TextBytes(members[1][2].v)
         + EntriesBytes(Tail(members))

\* the least os.path.getsize of a file with this content: a text can end in
\* more blank lines, an archive in a comment
MinBytes(f) ==
    IF f.kind = "text" THEN TextBytes(f.v) ELSE 22 + EntriesBytes(f.v)

\* the sizes tried for a content: the two sides of the size test where the
\* content fits, its own size where it is larger
SizesOf(f) ==
    {n \in {SmallFileBytes - 1, SmallFileBytes} : n >= MinBytes(f)}
    \cup (IF MinBytes(f) > SmallFileBytes THEN {MinBytes(f)} ELSE {})

\* a loader that has discovered a tree of one file
InitLoad ==
    /\ \E name \in LoadNames :
         \E f \in ContentsFor(name) : \E size \in SizesOf(f) :
           fs = [test_labeled |-> [exists |-> FALSE, files |-> <<>>, unreadable |-> {}],
                 test_unlabeled |-> [exists |-> FALSE, files |-> <<>>, unreadable |-> {}],
                 train_data |-> [exists |-> TRUE,
                                 files |-> <<[name |-> name, size_bytes |-> size, f |-> f]>>,
                                 unreadable |-> {}]]
    /\ max_records \in Caps
    /\ pc = "discovered"
    /\ loaded_datasets = <<>>
    /\ prev_loaded = <<>>
    /\ analyzed_name = NoName
    /\ analysis_results = <<>>
    /\ summary = None
    /\ raised = "none"
    /\ clock = 0
    /\ ret = NoCall
    /\ file_registry = discover_files(fs)

\* the descriptor and the file a loader-level call is made on
TheInfo == file_registry["train_data"][1]
TheFile == Open(fs, TheInfo)

Returns(op, out) ==
    /\ pc = "discovered"
    /\ ret = NoCall
    /\ ret' = [op |-> op, out |-> out]
    /\ pc' = "returned"
    /\ UNCHANGED <<fs, max_records, file_registry, loaded_datasets, prev_loaded,
                   analyzed_name, analysis_results, summary, raised, clock>>

\* load_json_file(file_path, max_records)
LoadJsonFile ==
    /\ TheFile.kind \in {"text", "zip"}
    /\ Returns("load_json_file", load_json_file(TheFile, max_records))

\* load_jsonl_file(file_path, max_records)
LoadJsonlFile ==
    /\ TheFile.kind \in {"text", "zip"}
    /\ Returns("load_jsonl_file", load_jsonl_file(TheFile, max_records))

\* load_csv_file(file_path, max_records)
LoadCsvFile ==
    /\ IsCsvText(TheFile)
    /\ Returns("load_csv_file", load_csv_file(TheInfo.name, TheFile, max_records))

\* extract_and_load_zip(file_path, max_records)
ExtractAndLoadZip ==
    /\ TheFile.kind \in {"text", "zip"}
    /\ Returns("extract_and_load_zip", extract_and_load_zip(TheFile, max_records))

\* load_file(file_info, max_records)
LoadFile ==
    /\ TheInfo.size_bytes >= 0
    /\ Returns("load_file", load_file(TheInfo, TheFile, max_records))

NextLoad ==
    \/ LoadJsonFile
    \/ LoadJsonlFile
    \/ LoadCsvFile
    \/ ExtractAndLoadZip
    \/ LoadFile
    \/ LoadAllDatasets

SpecLoad == InitLoad /\ [][NextLoad]_vars

\* ---------------------------------------------------------- properties
\* the registries and results of the pipeline are in hand
Discovered == DOMAIN file_registry # {}
Loaded == pc \in {"loaded", "analyzed", "reported", "crashed", "rediscovered", "reloaded"}

\* the key sets a dataset's files yield
KeySetsOf(dataset) == analyze_files(NewAnalysis(dataset), dataset).all_keys_sets

\* C1: every dataset analysed gets a SchemaAnalysis in which common_keys and
\* all_unique_keys are sets, common_keys is a subset of all_unique_keys, and
\* both are the empty set when no file of the dataset yields a key set
C1_KeySetsAlwaysSets ==
    pc \in {"analyzed", "crashed"} =>
        \A d \in datasets_to_analyze(loaded_datasets, analyzed_name) :
            /\ d \in DOMAIN analysis_results
            /\ analysis_results[d].common_keys.kind = "set"
            /\ analysis_results[d].all_unique_keys.kind = "set"
            /\ analysis_results[d].common_keys.v \subseteq analysis_results[d].all_unique_keys.v
            /\ KeySetsOf(loaded_datasets[d]) = <<>> =>
                 /\ analysis_results[d].common_keys.v = {}
                 /\ analysis_results[d].all_unique_keys.v = {}

\* C2: no call of the pipeline discover_files -> load_all_datasets ->
\* analyze_dataset_structure -> get_summary_report raises
C2_NothingRaises == raised = "none"

\* the descriptors of the files of d listed before the first unreadable one
FoundBeforeFailure(fsys, d) ==
    LET n == CHOOSE i \in 1..Len(fsys[d].files) :
                 /\ fsys[d].files[i].name \in fsys[d].unreadable
                 /\ \A j \in 1..(i - 1) : fsys[d].files[j].name \notin fsys[d].unreadable
    IN walk_loop([fsys EXCEPT ![d].files = SubSeq(@, 1, n - 1), ![d].unreadable = {}],
                 d, 1, <<>>).v

\* C3: a traversal that fails part-way leaves the dataset the descriptors
\* found before the failure, and every other dataset what a traversal
\* without the failure finds
C3_PartialResultsKept ==
    Discovered =>
        \A d \in DOMAIN base_paths :
            IF fs[d].unreadable # {}
            THEN file_registry[d] = FoundBeforeFailure(fs, d)
            ELSE file_registry[d] =
                   discover_dataset([e \in DOMAIN fs |-> [fs[e] EXCEPT !.unreadable = {}]], d)

\* the parsed values of a sequence of lines
ParsedLines(lines) == [i \in 1..Len(lines) |-> JsonLoads(Strip(lines[i]))]
AllParse(lines) == \A i \in 1..Len(lines) : JsonLoads(Strip(lines[i])) # Raised

\* the first k elements, all of them under max_records=None
FirstK(s, maxrec) == IF maxrec = NoLimit THEN s ELSE SubSeq(s, 1, Min(maxrec[1], Len(s)))

\* C4 as stated: load_jsonl_file with max_records = k returns the parsed
\* values of the first k non-blank lines (blank lines do not count)
C4_FirstKNonBlankLines ==
    (/\ pc = "returned" /\ ret.op = "load_jsonl_file"
     /\ TheFile.kind = "text" /\ AllParse(NonBlank(TheFile.v))) =>
        ret.out = PyList(ParsedLines(FirstK(NonBlank(TheFile.v), max_records)))

\* what the .jsonl rule gives for a text under a cap: the parsed non-blank
\* lines among the first k lines, or a failure when one of them is malformed
JsonlAmongFirstK(f, maxrec, failure) ==
    IF AllParse(NonBlank(FirstK(f.v, maxrec)))
    THEN PyList(ParsedLines(NonBlank(FirstK(f.v, maxrec))))
    ELSE failure

\* C4 amended: load_jsonl_file with max_records = k reads the first k lines
\* of the file, blank lines counted, and returns the parsed values of the
\* non-blank lines among them in file order (None when one of them is
\* malformed); a .jsonl member of an archive is read the same way
C4_NonBlankAmongFirstKLines ==
    /\ (pc = "returned" /\ ret.op = "load_jsonl_file" /\ TheFile.kind = "text") =>
           ret.out = JsonlAmongFirstK(TheFile, max_records, None)
    /\ (pc = "returned" /\ ret.op = "extract_and_load_zip" /\ TheFile.kind = "zip") =>
           \A i \in 1..Len(TheFile.v) :
               Lower(SplitExt(TheFile.v[i][1])) = ".jsonl" =>
                   LET want == JsonlAmongFirstK(TheFile.v[i][2], max_records, Raised) IN
                   IF want = Raised
                   THEN TheFile.v[i][1] \notin DictKeys(ret.out.v)
                   ELSE \E j \in 1..Len(ret.out.v) : ret.out.v[j] = <<TheFile.v[i][1], want>>

C4_Witness ==
    /\ pc = "returned"
    /\ ret.op = "load_jsonl_file"
    /\ TheFile = Text(<<"{\"a\":1}", "", "{\"a\":2}", "{\"a\":3}">>)
    /\ max_records = Limit(2)
    /\ ret.out = PyList(<<RecA1>>)

\* no file of the dataset's descriptors loads
NoneLoads(fsys, files, maxrec) ==
    \A i \in 1..Len(files) : ~load_file(files[i], Open(fsys, files[i]), maxrec)[1]

\* C5: every dataset of base_paths is a key of the discovered registry, with
\* no descriptors when its root is missing, and a key of the loaded
\* registry, with an empty file mapping when none of its files loads
C5_EveryDatasetInRegistry ==
    /\ Discovered =>
          /\ DOMAIN file_registry = DOMAIN base_paths
          /\ \A d \in DOMAIN base_paths : ~fs[d].exists => file_registry[d] = <<>>
    /\ Loaded =>
          /\ DOMAIN loaded_datasets = DOMAIN base_paths
          /\ \A d \in DOMAIN base_paths :
                NoneLoads(fs, file_registry[d], max_records) => loaded_datasets[d] = <<>>

C5_Witness ==
    /\ pc = "loaded"
    /\ ~fs["test_labeled"].exists
    /\ file_registry["test_labeled"] = <<>>
    /\ loaded_datasets["test_labeled"] = <<>>
    /\ Len(file_registry["train_data"]) > 0
    /\ loaded_datasets["train_data"] = <<>>

\* C6: load_file returns (False, None) for a descriptor below 50 bytes,
\* whatever its extension and content, taking no loader's branch, and no
\* payload of the loaded registry is of a file below 50 bytes
C6_SmallFilesSkipped ==
    /\ (pc = "returned" /\ ret.op = "load_file" /\ TheInfo.size_bytes < 50) =>
          /\ ret.out = <<FALSE, None>>
          /\ load_file_branch(TheInfo) = "skip"
    /\ pc = "loaded" =>
          \A d \in DOMAIN loaded_datasets : \A i \in 1..Len(loaded_datasets[d]) :
              loaded_datasets[d][i][2].file_info.size_bytes >= 50

C6_Witness ==
    /\ pc = "returned"
    /\ ret.op = "load_file"
    /\ TheInfo.size_bytes < 50
    /\ TheInfo.extension = ".json"
    /\ load_json_file(TheFile, max_records) # None
    /\ ret.out = <<FALSE, None>>

\* the members of an archive that are data files, and whether one parses
IsDataMember(m) == ~EndsWithSlash(m[1]) /\ Lower(SplitExt(m[1])) \in {".json", ".jsonl"}
MemberParses(m, maxrec) ==
    IF Lower(SplitExt(m[1])) = ".json" THEN json_load(m[2]) # Raised
    ELSE load_jsonl_file(m[2], maxrec) # None
MemberData(m, maxrec) ==
    IF Lower(SplitExt(m[1])) = ".json" THEN load_json_file(m[2], maxrec)
    ELSE load_jsonl_file(m[2], maxrec)

\* the mapping an archive should give: its data members that parse, each
\* with what its extension's own loader gives
ZipExpected(f, maxrec) ==
    LET ok == SelectSeq(f.v, LAMBDA m : IsDataMember(m) /\ MemberParses(m, maxrec))
    IN PyDict([i \in 1..Len(ok) |-> <<ok[i][1], MemberData(ok[i], maxrec)>>])

\* C7: loading a file that opens as an archive succeeds with exactly the
\* .json/.jsonl members that parse, whatever members fail; only a file that
\* does not open as an archive gives (False, None)
C7_ZipKeepsParsedMembers ==
    /\ (pc = "returned" /\ ret.op = "extract_and_load_zip") =>
          IF TheFile.kind = "zip" THEN ret.out = ZipExpected(TheFile, max_records)
          ELSE ret.out = None
    /\ (pc = "returned" /\ ret.op = "load_file"
           /\ load_file_branch(TheInfo) = "extract_and_load_zip") =>
          IF TheFile.kind = "zip" THEN ret.out = <<TRUE, ZipExpected(TheFile, max_records)>>
          ELSE ret.out = <<FALSE, None>>

C7_Witness ==
    /\ pc = "returned"
    /\ ret.op = "load_file"
    /\ TheFile = Zip(<< <<"n.json", Text(<<"{bad">>)>>,
                        <<"m.jsonl", Text(<<"{\"a\":1}", "", "{\"a\":2}">>)>> >>)
    /\ max_records = NoLimit
    /\ ret.out = <<TRUE, PyDict(<< <<"m.jsonl", PyList(<<RecA1, RecA2>>)>> >>)>>

\* C8: load_json_file on a JSON array under max_records = k returns its
\* first min(k, length) elements in order, and on a JSON object the whole
\* object under any max_records
C8_JsonListTruncated ==
    (pc = "returned" /\ ret.op = "load_json_file" /\ json_load(TheFile) # Raised) =>
        LET value == json_load(TheFile) IN
        /\ (value.kind = "list" /\ max_records # NoLimit) =>
              /\ ret.out.kind = "list"
              /\ Len(ret.out.v) = Min(max_records[1], Len(value.v))
              /\ \A i \in 1..Len(ret.out.v) : ret.out.v[i] = value.v[i]
        /\ value.kind = "dict" => ret.out = value

C8_Witness ==
    /\ pc = "returned"
    /\ ret.op = "load_json_file"
    /\ TheFile = Text(<<"[0,1,2,3,4,5,6,7,8,9]">>)
    /\ max_records = Limit(3)
    /\ ret.out = PyList(<<PyInt(0), PyInt(1), PyInt(2)>>)

C8_WitnessObject ==
    /\ pc = "returned"
    /\ ret.op = "load_json_file"
    /\ json_load(TheFile).kind = "dict"
    /\ max_records = Limit(0)

\* the key sets the first records of a payload give
FirstRecordKeys(data) ==
    CASE data.kind = "list" ->
           IF Len(data.v) > 0 /\ data.v[1].kind = "dict"
           THEN {DictKeys(data.v[1].v)} ELSE {}
      [] data.kind = "dict" ->
           {DictKeys(data.v[i][2].v[1].v) :
              i \in {j \in 1..Len(data.v) :
                       /\ data.v[j][2].kind = "list"
                       /\ Len(data.v[j][2].v) > 0
                       /\ data.v[j][2].v[1].kind = "dict"}}
      [] data.kind = "frame" -> {{data.v[1][c] : c \in 1..Len(data.v[1])}}
      [] OTHER -> {}

CapturedKeySets(dataset) ==
    UNION {FirstRecordKeys(dataset[i][2].data) : i \in 1..Len(dataset)}

\* the orders in which a dataset's files can be iterated
Orders(dataset) ==
    {[i \in 1..Len(dataset) |-> dataset[p[i]]] : p \in Permutations(1..Len(dataset))}

\* C9: for a dataset with a captured key set, common_keys is the
\* intersection and all_unique_keys the union of the key sets captured from
\* the files' first records, and common_keys, all_unique_keys and
\* data_schema are the same for every iteration order of its files
C9_KeysIntersectionUnion ==
    pc = "analyzed" =>
        \A d \in DOMAIN analysis_results :
            LET K == CapturedKeySets(loaded_datasets[d]) IN
            K # {} =>
                /\ analysis_results[d].common_keys =
                       PySet({k \in UNION K : \A S \in K : k \in S})
                /\ analysis_results[d].all_unique_keys = PySet(UNION K)
                /\ \A o \in Orders(loaded_datasets[d]) :
                       /\ build_analysis(o).common_keys = analysis_results[d].common_keys
                       /\ build_analysis(o).all_unique_keys =
                              analysis_results[d].all_unique_keys
                       /\ build_analysis(o).data_schema = analysis_results[d].data_schema

C9_Witness ==
    /\ pc = "analyzed"
    /\ "train_data" \in DOMAIN analysis_results
    /\ Len(loaded_datasets["train_data"]) = 2
    /\ loaded_datasets["train_data"][1][1] = "a.jsonl"
    /\ loaded_datasets["train_data"][2][1] = "sub/b.json"
    /\ analysis_results["train_data"].common_keys = PySet({"x"})
    /\ analysis_results["train_data"].all_unique_keys = PySet({"x", "y", "z"})
    /\ analysis_results["train_data"].data_schema =
           [k \in {"x", "y", "z"} |-> IF k = "x" THEN {"int", "str"}
                                      ELSE IF k = "y" THEN {"str"} ELSE {"int"}]

\* the file keys of a dataset's mapping, and the data under a key
NamesOf(dataset) == {dataset[i][1] : i \in 1..Len(dataset)}
DataOf(dataset, name) ==
    dataset[CHOOSE i \in 1..Len(dataset) : dataset[i][1] = name][2].data

\* C10: discovery and load run twice on an unchanged tree with the same
\* max_records give registries with the same datasets, the same file keys
\* and the same data under every key
C10_ReloadSameData ==
    pc = "reloaded" =>
        /\ DOMAIN loaded_datasets = DOMAIN prev_loaded[1]
        /\ \A d \in DOMAIN loaded_datasets :
              /\ NamesOf(loaded_datasets[d]) = NamesOf(prev_loaded[1][d])
              /\ \A n \in NamesOf(loaded_datasets[d]) :
                    DataOf(loaded_datasets[d], n) = DataOf(prev_loaded[1][d], n)

C10_Witness ==
    /\ pc = "reloaded"
    /\ Len(loaded_datasets["train_data"]) >= 1
    /\ Len(loaded_datasets["test_labeled"]) >= 1
    /\ \A i \in 1..Len(loaded_datasets["train_data"]) :
          loaded_datasets["train_data"][i][2].loaded_at #
              prev_loaded[1]["train_data"][i][2].loaded_at

\* the sequences of records a payload offers for sampling: a list whose
\* first item is a mapping, a frame's rows, and of a mapping payload every
\* non-empty member list whose first element is a mapping, in member order
SampleSources(data) ==
    CASE data.kind = "list" ->
           IF Len(data.v) > 0 /\ data.v[1].kind = "dict" THEN <<data.v>> ELSE <<>>
      [] data.kind = "dict" ->
           LET members == SelectSeq(data.v,
                   LAMBDA it : /\ it[2].kind = "list"
                               /\ Len(it[2].v) > 0
                               /\ it[2].v[1].kind = "dict")
           IN [i \in 1..Len(members) |-> members[i][2].v]
      [] data.kind = "frame" -> <<FrameRecords(data, Len(data.v[2]))>>
      [] OTHER -> <<>>

\* the sample sources of a dataset's files, in file order
RECURSIVE DatasetSources(_)
DatasetSources(dataset) ==
    IF dataset = <<>> THEN <<>>
    ELSE SampleSources(dataset[1][2].data) \o DatasetSources(Tail(dataset))

\* the first n elements of every sequence of sources, concatenated
RECURSIVE FirstOfEach(_, _)
FirstOfEach(sources, n) ==
    IF sources = <<>> THEN <<>>
    ELSE Slice(sources[1], n) \o FirstOfEach(Tail(sources), n)

\* the records one file adds to sample_records
FileSamples(filename, data) ==
    analyze_file(NewAnalysis(<<>>), filename, data).analysis.sample_records

\* C11 as stated: in every analysis each loaded file adds at most 2 records
\* to sample_records, a .zip file with several data-bearing members
\* included, and so len(sample_records) <= 2 * file_count
C11_AtMostTwoPerFile ==
    pc = "analyzed" =>
        \A d \in DOMAIN analysis_results :
            /\ \A i \in 1..Len(loaded_datasets[d]) :
                   Len(FileSamples(loaded_datasets[d][i][1],
                                   loaded_datasets[d][i][2].data)) <= 2
            /\ Len(analysis_results[d].sample_records)
                   <= 2 * analysis_results[d].file_count

\* C11 amended: sample_records is, in file order, the first <= 2 records of
\* every list payload whose first item is a mapping, of every frame, and of
\* every data-bearing member of a mapping payload (member by member), so
\* its length is at most 2 * the number of those lists, frames and members
C11_AtMostTwoPerSource ==
    pc = "analyzed" =>
        \A d \in DOMAIN analysis_results :
            LET sources == DatasetSources(loaded_datasets[d]) IN
            /\ analysis_results[d].sample_records = FirstOfEach(sources, 2)
            /\ Len(analysis_results[d].sample_records) <= 2 * Len(sources)

\* a one-file dataset whose .zip holds two data-bearing members, one of
\* three records, has four sample records
C11_Witness ==
    /\ pc = "analyzed"
    /\ max_records = Limit(DefaultMaxRecords)
    /\ "train_data" \in DOMAIN analysis_results
    /\ analysis_results["train_data"].file_count = 1
    /\ loaded_datasets["train_data"][1][1] = "d.zip"
    /\ Len(SampleSources(loaded_datasets["train_data"][1][2].data)) = 2
    /\ Len(SampleSources(loaded_datasets["train_data"][1][2].data)[1]) = 3
    /\ analysis_results["train_data"].sample_records =
           <<RecA1, RecA2, RecXZ(1), RecXZ(2)>>
====
